---- MODULE Spec2Model ----
(***************************************************************************)
(* Model of transform_data.py: the missing-data resolver                   *)
(* (complete_missing_data), the field encoder (one_hot, preprocess) and    *)
(* the projections (pca_transform, mds_transform, tsne_transform,          *)
(* umap_transform), driven by a caller that runs the pipeline stage by     *)
(* stage on one base dataset.                                              *)
(*                                                                         *)
(* A cell is a tuple: <<>> is a missing value (NaN), <<label>> a category  *)
(* label, and <<s, num, den>> the real number s * sqrt(num / den) in       *)
(* lowest terms (an integer x is <<sign x, x*x, 1>>), so that the mean and *)
(* the standard deviation of a column are computed exactly.                *)
(***************************************************************************)
EXTENDS Integers, Sequences, FiniteSets, TLC

VARIABLES data, field_info, completed, completed_info, fields_kept,
          samples_kept, encoded, original_fields, transformed, components,
          model, err, call, aliased, pc

vars == <<data, field_info, completed, completed_info, fields_kept,
          samples_kept, encoded, original_fields, transformed, components,
          model, err, call, aliased, pc>>

----------------------------------------------------------------------------
(* Bounds of the model. *)

\* number of samples of the base dataset
NumRows == 2
\* largest max_pcs the caller passes to pca_transform
MaxPcs == 3
\* largest n_runs the caller passes to tsne_transform
MaxRuns == 3

\* the names of the base dataset's fields, in column order
FieldNames == <<"a_b", "a">>
\* per field, the FieldType tags it may carry
FieldTypeChoices == <<{"Numeric", "Categorical"},
                      {"Numeric", "Categorical", "OrderedCategorical"}>>
\* per field, the integers its cells may hold when it is numeric
NumericValues == <<{2}, {0, 2}>>
\* the labels a categorical cell of the base dataset may hold, in the
\* order in which pandas sorts them (code-point order of the strings)
LabelOrder == <<"Unknown", "Unknown1", "Unknown2", "Unknown_", "b", "c">>
\* per field, the labels its cells may hold when it is categorical and
\* not the dataset's only field
PlainLabels == <<{"b"}, {"b", "c"}>>
\* the final KL divergences a t-SNE run may report
KLValues == {1, 2, 3}
\* tsne_transform's and umap_transform's default pca_dims
DefaultPcaDims == 50

----------------------------------------------------------------------------
(* Exact arithmetic on cells. *)

\* Let(e, F) is F(e) with e evaluated once
Let(e, F(_)) == CHOOSE y \in {F(x) : x \in {e}} : TRUE

NaN == <<>>

isnull(v) == v = NaN

Sign(x) == IF x < 0 THEN -1 ELSE IF x = 0 THEN 0 ELSE 1

RECURSIVE GCD(_, _)
GCD(a, b) == IF b = 0 THEN a ELSE GCD(b, a % b)

RECURSIVE ISqrtFrom(_, _)
ISqrtFrom(x, i) == IF i * i >= x THEN i ELSE ISqrtFrom(x, i + 1)

\* the integer square root of a perfect square
ISqrt(x) == ISqrtFrom(x, 0)

\* the cell holding s * sqrt(num / den), den > 0, in lowest terms
Cell(s, num, den) ==
    IF s = 0 \/ num = 0 THEN <<0, 0, 1>>
    ELSE Let(GCD(num, den), LAMBDA g : <<s, num \div g, den \div g>>)

\* the cell holding the integer x
Num(x) == Cell(Sign(x), x * x, 1)

RECURSIVE SumSeq(_)
SumSeq(s) == IF s = <<>> THEN 0 ELSE Head(s) + SumSeq(Tail(s))

RECURSIVE LcmSeq(_)
LcmSeq(s) ==
    IF s = <<>> THEN 1
    ELSE Let(LcmSeq(Tail(s)), LAMBDA l : (Head(s) * l) \div GCD(Head(s), l))

\* the cells of a column that are not missing
Present(col) == SelectSeq(col, LAMBDA v : ~isnull(v))

\* the number of cells of a column that are not missing
count(col) == Len(Present(col))

\* (v / |ref|)^2 as <<A, B>>, the fraction A / B in lowest terms
Ratio(v, ref) ==
    Let(<<v[2] * ref[3], v[3] * ref[2]>>,
        LAMBDA xy : Let(GCD(xy[1], xy[2]),
                        LAMBDA g : <<xy[1] \div g, xy[2] \div g>>))

\* the first present cell of a column that is not zero, <<1, 1, 1>> if none
Reference(col) ==
    Let(SelectSeq(col, LAMBDA v : ~isnull(v) /\ v[1] # 0),
        LAMBDA nz : IF nz = <<>> THEN <<1, 1, 1>> ELSE Head(nz))

\* A column of commensurable reals as integers over a common unit: every
\* present cell i is ints[i] * sqrt(unitnum / unitden); ints[i] is 0 for a
\* missing cell.
Scaled(col) ==
    Let(Reference(col), LAMBDA ref :
    \* per cell <<sign, sqrt A, sqrt B>> of v / |ref|
    Let([i \in 1..Len(col) |->
            IF isnull(col[i]) THEN <<0, 0, 1>>
            ELSE Let(Ratio(col[i], ref),
                     LAMBDA ab : <<col[i][1], ISqrt(ab[1]), ISqrt(ab[2])>>)],
        LAMBDA q :
    Let(LcmSeq([i \in 1..Len(col) |-> q[i][3]]), LAMBDA L :
        [ints    |-> [i \in 1..Len(col) |-> q[i][1] * q[i][2] * (L \div q[i][3])],
         unitnum |-> ref[2],
         unitden |-> ref[3] * L * L])))

\* Series.mean(): the mean of the present cells, NaN when there is none
mean(col) ==
    Let(<<Scaled(col), count(col)>>, LAMBDA t :
    Let(SumSeq(t[1].ints), LAMBDA S :
        IF t[2] = 0 THEN NaN
        ELSE Cell(Sign(S), S * S * t[1].unitnum, t[2] * t[2] * t[1].unitden)))

\* (col - col.mean()) / col.std(): std is the sample standard deviation
\* (ddof = 1), NaN for fewer than two present cells; 0 / 0 is NaN
standardize(col) ==
    Let(<<Scaled(col).ints, count(col)>>, LAMBDA t :
    Let(SumSeq(t[1]), LAMBDA S :
    Let(t[2] * SumSeq([i \in 1..Len(col) |-> t[1][i] * t[1][i]]) - S * S, LAMBDA Q :
        [i \in 1..Len(col) |->
            IF isnull(col[i]) \/ t[2] < 2 \/ Q = 0 THEN NaN
            ELSE Let(t[2] * t[1][i] - S,
                     LAMBDA k : Cell(Sign(k), k * k * (t[2] - 1), t[2] * Q))])))

----------------------------------------------------------------------------
(* DataFrames.  A dataset is [index, columns, cats, vals]: the row keys,  *)
(* the field names, and per field its declared categories (pandas'        *)
(* category dtype; <<>> for a numeric field) and its column of cells.     *)
(* field_info is [index, FieldType], aligned with the dataset's columns.  *)

Range(s) == {s[i] : i \in DOMAIN s}

\* the positions of a sequence a boolean mask selects, as a sequence
Selected(mask) == SelectSeq([i \in 1..Len(mask) |-> i], LAMBDA i : mask[i])

\* s[mask]: the elements of a sequence a boolean mask selects
Take(s, mask) == Let(Selected(mask), LAMBDA sel : [k \in 1..Len(sel) |-> s[sel[k]]])

NoData == [index |-> <<>>, columns |-> <<>>, cats |-> <<>>, vals |-> <<>>]

\* data.isnull().sum(): per field, the number of missing cells
isnull_sum(d) == [j \in 1..Len(d.columns) |-> Len(d.index) - count(d.vals[j])]

\* data.isnull().sum(axis=1): per sample, the number of missing cells
isnull_sum_axis1(d) ==
    [i \in 1..Len(d.index) |->
        Cardinality({j \in 1..Len(d.columns) : isnull(d.vals[j][i])})]

\* whether a dataset holds a missing value
HasMissing(d) ==
    \E j \in 1..Len(d.columns) : \E i \in 1..Len(d.index) : isnull(d.vals[j][i])

\* data.loc[:, mask]: a new dataset with the selected fields
loc_fields(d, mask) ==
    [index |-> d.index, columns |-> Take(d.columns, mask),
     cats |-> Take(d.cats, mask), vals |-> Take(d.vals, mask)]

\* data.loc[mask, :]: a new dataset with the selected samples; a
\* categorical field keeps its declared categories
loc_samples(d, mask) ==
    [index |-> Take(d.index, mask), columns |-> d.columns, cats |-> d.cats,
     vals |-> [j \in 1..Len(d.columns) |-> Take(d.vals[j], mask)]]

\* field_info.loc[mask, :], what the caller passes on with the kept fields
info_fields(fi, mask) ==
    [index |-> Take(fi.index, mask), FieldType |-> Take(fi.FieldType, mask)]

FieldTypes == {"Numeric", "Categorical", "OrderedCategorical"}

IsNumeric(t) == t = "Numeric"

IsCategorical(t) == t \in {"OrderedCategorical", "Categorical"}

Digits == <<"0", "1", "2", "3", "4", "5", "6", "7", "8", "9">>

\* "{}".format(n) for n >= 0
RECURSIVE str(_)
str(n) == IF n < 10 THEN Digits[n + 1] ELSE str(n \div 10) \o Digits[(n % 10) + 1]

\* the labels that occur in a categorical column
Labels(col) == {v[1] : v \in Range(Present(col))}

----------------------------------------------------------------------------
(* complete_missing_data *)

Methods == {"drop_fields", "drop_samples", "fill_values"}

NumericFills == {"zeroes", "mean"}

CategoricalFills == {"common_unknown", "unique_unknown"}

\* what a call returns: the exception raised ("none" when it returns) and
\* the returned tuple
Returned(c, fk, sk) ==
    [raised |-> "none", completed |-> c, fields_kept |-> fk, samples_kept |-> sk]

Raised(e) ==
    [raised |-> e, completed |-> NoData, fields_kept |-> <<>>, samples_kept |-> <<>>]

\* pd.Series(True, index=...)
AllTrue(n) == [i \in 1..n |-> TRUE]

\* drop_fields keeping every field that has a value at all
drop_fields_all_missing(d, fi) ==
    Let(isnull_sum(d), LAMBDA missing :
    Let([j \in 1..Len(d.columns) |-> missing[j] < Len(d.index)], LAMBDA fk :
        Returned(loc_fields(d, fk), fk, AllTrue(Len(d.index)))))

drop_fields(d, fi) ==
    Let(isnull_sum(d), LAMBDA missing :
    Let([j \in 1..Len(d.columns) |-> missing[j] = 0], LAMBDA fk :
        Returned(loc_fields(d, fk), fk, AllTrue(Len(d.index)))))

drop_samples(d, fi) ==
    Let(isnull_sum_axis1(d), LAMBDA missing :
    Let([i \in 1..Len(d.index) |-> missing[i] = 0], LAMBDA sk :
        Returned(loc_samples(d, sk), AllTrue(Len(fi.index)), sk)))

\* the value written into the missing cells of a numeric field
numeric_value(col, numeric_fill) ==
    IF numeric_fill = "zeroes" THEN Num(0) ELSE mean(col)

fill_numeric(col, numeric_fill) ==
    Let(numeric_value(col, numeric_fill), LAMBDA value :
        [i \in 1..Len(col) |-> IF isnull(col[i]) THEN value ELSE col[i]])

\* new_value = 'Unknown', with "_" appended while it occurs in the field
RECURSIVE common_value(_, _)
common_value(col, new_value) ==
    IF new_value \in Labels(col) THEN common_value(col, new_value \o "_")
    ELSE new_value

\* new_values = "Unknown1".."Unknownk", with "_" appended to each of them
\* while one of them occurs in the field
RECURSIVE unique_values(_, _)
unique_values(col, new_values) ==
    IF Range(new_values) \cap Labels(col) # {}
    THEN unique_values(col, [n \in 1..Len(new_values) |-> new_values[n] \o "_"])
    ELSE new_values

\* the labels generated for the missing cells of a categorical field, one
\* per missing cell in row order
new_labels(col, categorical_fill) ==
    Let(Len(col) - count(col), LAMBDA k :
        IF categorical_fill = "common_unknown"
        THEN Let(common_value(col, "Unknown"), LAMBDA new_value :
                 [n \in 1..k |-> new_value])
        ELSE unique_values(col, [n \in 1..k |-> "Unknown" \o str(n)]))

\* the position of row i among the missing cells of a column
MissingRank(col, i) == Cardinality({h \in 1..i : isnull(col[h])})

\* fill_categorical writing the first new label into every missing cell
fill_categorical_first_label(col, nl) ==
    [i \in 1..Len(col) |-> IF isnull(col[i]) THEN <<nl[1]>> ELSE col[i]]

\* completed.loc[missing_values, field] = the new labels
fill_categorical(col, nl) ==
    [i \in 1..Len(col) |->
        IF isnull(col[i]) THEN <<nl[MissingRank(col, i)]>> ELSE col[i]]

\* the categories add_categories appends: the new labels in order, once each
added_categories(nl, categorical_fill) ==
    IF categorical_fill = "common_unknown" THEN <<nl[1]>> ELSE nl

\* Categorical.add_categories raises ValueError when a new category is
\* already one of the declared categories
add_categories_raises(cats, new) == Range(new) \cap Range(cats) # {}

\* fill_field looping over every categorical field, not only over those
\* with a missing value
fill_field_every_categorical(type, cats, col, numeric_fill, categorical_fill) ==
    IF IsNumeric(type) THEN <<FALSE, cats, fill_numeric(col, numeric_fill)>>
    ELSE IF IsCategorical(type)
         THEN Let(new_labels(col, categorical_fill), LAMBDA nl :
              Let(IF categorical_fill = "common_unknown"
                  THEN <<common_value(col, "Unknown")>> ELSE nl, LAMBDA new :
                  <<add_categories_raises(cats, new), cats \o new,
                    fill_categorical(col, nl)>>))
         ELSE <<FALSE, cats, col>>

\* one field of fill_values: <<raised, categories, column>>
fill_field(type, cats, col, numeric_fill, categorical_fill) ==
    IF count(col) = Len(col) THEN <<FALSE, cats, col>>
    ELSE IF IsNumeric(type) THEN <<FALSE, cats, fill_numeric(col, numeric_fill)>>
    ELSE IF IsCategorical(type)
         THEN Let(new_labels(col, categorical_fill), LAMBDA nl :
              Let(added_categories(nl, categorical_fill), LAMBDA new :
                  <<add_categories_raises(cats, new), cats \o new,
                    fill_categorical(col, nl)>>))
         ELSE <<FALSE, cats, col>>

fill_values(d, fi, numeric_fill, categorical_fill) ==
    IF numeric_fill \notin NumericFills THEN Raised("ValueError")
    ELSE IF categorical_fill \notin CategoricalFills THEN Raised("ValueError")
    ELSE Let([j \in 1..Len(d.columns) |->
                 fill_field(fi.FieldType[j], d.cats[j], d.vals[j],
                            numeric_fill, categorical_fill)],
             LAMBDA f :
                 IF \E j \in 1..Len(d.columns) : f[j][1] THEN Raised("ValueError")
                 ELSE Returned([index |-> d.index, columns |-> d.columns,
                                cats |-> [j \in 1..Len(d.columns) |-> f[j][2]],
                                vals |-> [j \in 1..Len(d.columns) |-> f[j][3]]],
                               AllTrue(Len(fi.index)), AllTrue(Len(d.index))))

\* complete_missing_data without the final else: any other method fills
complete_missing_data_no_else(d, fi, method, numeric_fill, categorical_fill) ==
    IF method = "drop_fields" THEN drop_fields(d, fi)
    ELSE IF method = "drop_samples" THEN drop_samples(d, fi)
    ELSE fill_values(d, fi, numeric_fill, categorical_fill)

complete_missing_data(d, fi, method, numeric_fill, categorical_fill) ==
    IF method = "drop_fields" THEN drop_fields(d, fi)
    ELSE IF method = "drop_samples" THEN drop_samples(d, fi)
    ELSE IF method = "fill_values"
         THEN fill_values(d, fi, numeric_fill, categorical_fill)
         ELSE Raised("ValueError")

----------------------------------------------------------------------------
(* one_hot and preprocess *)

RECURSIVE Concat(_)
Concat(ss) == IF ss = <<>> THEN <<>> ELSE Head(ss) \o Concat(Tail(ss))

\* the position of a label in a sequence of categories
IndexOf(cats, c) == CHOOSE p \in 1..Len(cats) : cats[p] = c

\* vec.cat.codes: the 0-based position of a cell's category, -1 for a
\* missing cell
code(v, cats) == IF isnull(v) THEN -1 ELSE IndexOf(cats, v[1]) - 1

\* eye_row taking the 0-based code for the 1-based row
eye_row_off_by_one(n, c) == IF c < 0 THEN n + c ELSE c

\* the 1-based row of np.eye(n) that index c selects: a negative index
\* counts from the end
eye_row(n, c) == IF c < 0 THEN n + c + 1 ELSE c + 1

\* one_hot(series): the indicator block of one categorical field, with the
\* exception raised by indexing an empty identity matrix
one_hot(index, name, col, cats) ==
    IF Len(cats) = 0 /\ Len(col) > 0
    THEN [raised |-> "IndexError", index |-> <<>>, columns |-> <<>>, vals |-> <<>>]
    ELSE Let([i \in 1..Len(col) |-> eye_row(Len(cats), code(col[i], cats))],
             LAMBDA rows :
                 [raised |-> "none",
                  index |-> index,
                  columns |-> [p \in 1..Len(cats) |-> name \o "_" \o cats[p]],
                  vals |-> [p \in 1..Len(cats) |->
                              [i \in 1..Len(col) |->
                                  IF rows[i] = p THEN Num(1) ELSE Num(0)]]])

\* data.loc[:,numeric_fieldspec] -= mean; /= std, in place
scale_numeric(d, fi) ==
    [d EXCEPT !.vals = [j \in 1..Len(d.columns) |->
                           IF IsNumeric(fi.FieldType[j]) THEN standardize(d.vals[j])
                           ELSE d.vals[j]]]

\* the dict built by assigning the (key, value) pairs in order: the last
\* assignment to a key stands
dict(pairs) ==
    [k \in {pairs[i][1] : i \in 1..Len(pairs)} |->
        pairs[CHOOSE i \in 1..Len(pairs) :
                 /\ pairs[i][1] = k
                 /\ \A h \in (i + 1)..Len(pairs) : pairs[h][1] # k][2]]

NoFrame == [index |-> <<>>, columns |-> <<>>, vals |-> <<>>]

\* preprocess(data, field_info, scale): the exception raised, the dataset
\* passed in as the call leaves it, and the returned tuple
preprocess(d, fi, scale) ==
    Let([numeric_fieldspec |-> [j \in 1..Len(d.columns) |-> IsNumeric(fi.FieldType[j])],
         categorical_fields |->
             Selected([j \in 1..Len(d.columns) |-> IsCategorical(fi.FieldType[j])]),
         data |-> IF scale THEN scale_numeric(d, fi) ELSE d],
        LAMBDA a :
    Let([k \in 1..Len(a.categorical_fields) |->
            one_hot(a.data.index, a.data.columns[a.categorical_fields[k]],
                    a.data.vals[a.categorical_fields[k]],
                    a.data.cats[a.categorical_fields[k]])],
        LAMBDA encoded_field_list :
    Let(Take(a.data.columns, a.numeric_fieldspec), LAMBDA numeric_names :
        IF \E k \in 1..Len(encoded_field_list) : encoded_field_list[k].raised # "none"
        THEN [raised |-> "IndexError", data |-> a.data, encoded |-> NoFrame,
              original_fields |-> <<>>]
        ELSE [raised |-> "none",
              data |-> a.data,
              encoded |->
                  [index |-> a.data.index,
                   columns |-> numeric_names
                               \o Concat([k \in 1..Len(encoded_field_list) |->
                                             encoded_field_list[k].columns]),
                   vals |-> Take(a.data.vals, a.numeric_fieldspec)
                            \o Concat([k \in 1..Len(encoded_field_list) |->
                                          encoded_field_list[k].vals])],
              original_fields |->
                  dict([k \in 1..Len(numeric_names) |->
                           <<numeric_names[k], numeric_names[k]>>]
                       \o Concat([k \in 1..Len(encoded_field_list) |->
                             [p \in 1..Len(encoded_field_list[k].columns) |->
                                 <<encoded_field_list[k].columns[p],
                                   a.data.columns[a.categorical_fields[k]]>>]]))])))

----------------------------------------------------------------------------
(* The projections.  The numeric routines are sklearn's and umap's: what  *)
(* the model keeps of them is that they validate their input (a missing   *)
(* value or an empty matrix raises ValueError) and the shape of what they *)
(* return; an embedding is kept as its row index and column names.        *)

\* sklearn's check_array, called by fit / fit_transform
check_array_raises(m) ==
    \/ Len(m.index) = 0
    \/ Len(m.columns) = 0
    \/ \E j \in 1..Len(m.vals) : \E i \in 1..Len(m.index) : isnull(m.vals[j][i])

Min(a, b) == IF a < b THEN a ELSE b

pca_names(num_pcs) == [n \in 1..num_pcs |-> "PCA" \o str(n)]

\* num_pcs without the number of samples
num_pcs_of_columns_only(m, max_pcs) == Min(max_pcs, Len(m.columns))

\* num_pcs = min(max_pcs, data.shape[1], data.shape[0])
num_pcs_of(m, max_pcs) == Min(max_pcs, Min(Len(m.columns), Len(m.index)))

NoEmbedding == [index |-> <<>>, columns |-> <<>>]

pca_transform(m, max_pcs) ==
    IF check_array_raises(m)
    THEN [raised |-> "ValueError", transformed |-> NoEmbedding,
          components |-> NoEmbedding]
    ELSE Let(pca_names(num_pcs_of(m, max_pcs)), LAMBDA names :
             [raised |-> "none",
              transformed |-> [index |-> m.index, columns |-> names],
              components |-> [index |-> m.columns, columns |-> names]])

mds_transform(m) ==
    IF check_array_raises(m)
    THEN [raised |-> "ValueError", transformed |-> NoEmbedding]
    ELSE [raised |-> "none",
          transformed |-> [index |-> m.index, columns |-> <<"MDS dim A", "MDS dim B">>]]

\* pca_dims is 0 for None; whether PCA is carried out before t-SNE / UMAP
pca_first(m, pca_dims) ==
    pca_dims # 0 /\ pca_dims < Len(m.columns) /\ pca_dims < Len(m.index)

\* kept_run comparing every later run with score, the divergence of the
\* first run, instead of with the run kept so far
kept_run_against_score(kls, n) ==
    Let({h \in 2..n : kls[h] < kls[1]}, LAMBDA lower :
        IF lower = {} THEN 1 ELSE CHOOSE h \in lower : \A g \in lower : g <= h)

\* the run kept by the loop of tsne_transform over the runs' final KL
\* divergences: a later run replaces the kept one when it is strictly lower
RECURSIVE kept_run(_, _)
kept_run(kls, n) ==
    IF n = 1 THEN 1
    ELSE Let(kept_run(kls, n - 1),
             LAMBDA best : IF kls[n] < kls[best] THEN n ELSE best)

\* the number of times tsne_transform fits: once, then range(n_runs - 1)
fits(n_runs) == IF n_runs < 1 THEN 1 ELSE n_runs

\* the model a projection returns: the final KL divergence of every fit in
\* order, the fit whose model is returned, the fit whose embedding_ is
\* returned, and whether PCA was carried out first
NoModel == [kls |-> <<>>, kept |-> 0, embedding |-> 0, pca |-> FALSE]

\* tsne_transform building the embedding without index=data.index: the
\* frame gets pandas' default index 0..n-1
tsne_transform_default_index(m, pca_dims, kls) ==
    IF check_array_raises(m)
    THEN [raised |-> "ValueError", transformed |-> NoEmbedding, model |-> NoModel]
    ELSE [raised |-> "none",
          transformed |-> [index |-> [i \in 1..Len(m.index) |-> i - 1],
                           columns |-> <<"tSNE dim A", "tSNE dim B">>],
          model |-> Let(kept_run(kls, Len(kls)), LAMBDA tsne :
                        [kls |-> kls, kept |-> tsne, embedding |-> tsne,
                         pca |-> pca_first(m, pca_dims)])]

tsne_transform(m, pca_dims, kls) ==
    IF check_array_raises(m)
    THEN [raised |-> "ValueError", transformed |-> NoEmbedding, model |-> NoModel]
    ELSE [raised |-> "none",
          transformed |-> [index |-> m.index, columns |-> <<"tSNE dim A", "tSNE dim B">>],
          model |-> Let(kept_run(kls, Len(kls)), LAMBDA tsne :
                        [kls |-> kls, kept |-> tsne, embedding |-> tsne,
                         pca |-> pca_first(m, pca_dims)])]

umap_transform(m, pca_dims) ==
    IF check_array_raises(m)
    THEN [raised |-> "ValueError", transformed |-> NoEmbedding, model |-> NoModel]
    ELSE [raised |-> "none",
          transformed |-> [index |-> m.index, columns |-> <<"UMAP dim A", "UMAP dim B">>],
          model |-> [kls |-> <<>>, kept |-> 0, embedding |-> 0,
                     pca |-> pca_first(m, pca_dims)]]

----------------------------------------------------------------------------
(* The datasets the caller may hold.  Ingestion gives every categorical   *)
(* field the category dtype, its categories being the labels that occur   *)
(* in it, sorted; sample keys are distinct.                               *)

RowKey(i) == 10 * i

\* the categories of a column as astype('category') declares them
sorted_categories(col) == SelectSeq(LabelOrder, LAMBDA l : l \in Labels(col))

\* the non-empty selections of fields, as the selected positions of FieldNames
FieldSelections ==
    {Selected(mask) : mask \in {m \in [1..Len(FieldNames) -> BOOLEAN] :
                                   \E j \in DOMAIN m : m[j]}}

\* the cells field f may hold in a dataset of the selected fields: a
\* categorical field that is the "a" of a one-field dataset draws its labels
\* from all of LabelOrder
Cells(f, type, selection) ==
    {NaN} \cup
    IF IsNumeric(type) THEN {Num(x) : x \in NumericValues[f]}
    ELSE IF Len(selection) = 1 /\ type = "Categorical" /\ f = Len(FieldNames)
         THEN {<<l>> : l \in Range(LabelOrder)}
         ELSE {<<l>> : l \in PlainLabels[f]}

AnyCell ==
    {NaN} \cup {Num(x) : x \in UNION Range(NumericValues)}
          \cup {<<l>> : l \in Range(LabelOrder)}

Dataset(names, types, vals) ==
    [index |-> [i \in 1..NumRows |-> RowKey(i)],
     columns |-> names,
     cats |-> [j \in 1..Len(names) |->
                 IF IsNumeric(types[j]) THEN <<>> ELSE sorted_categories(vals[j])],
     vals |-> vals]

----------------------------------------------------------------------------
(* The caller: one pipeline invocation after the other on the base        *)
(* dataset, stage by stage.                                               *)

NoCall == [op |-> "none"]

Init ==
    \E selection \in FieldSelections :
      \E names \in {[j \in 1..Len(selection) |-> FieldNames[selection[j]]]} :
      \E types \in [1..Len(selection) -> FieldTypes] :
      \E vals \in [1..Len(selection) -> [1..NumRows -> AnyCell]] :
        /\ \A j \in 1..Len(selection) : types[j] \in FieldTypeChoices[selection[j]]
        /\ \A j \in 1..Len(selection) : \A i \in 1..NumRows :
              vals[j][i] \in Cells(selection[j], types[j], selection)
        /\ data = Dataset(names, types, vals)
        /\ field_info = [index |-> names, FieldType |-> types]
        /\ completed = NoData
        /\ completed_info = [index |-> <<>>, FieldType |-> <<>>]
        /\ fields_kept = <<>>
        /\ samples_kept = <<>>
        /\ encoded = NoFrame
        /\ original_fields = <<>>
        /\ transformed = NoEmbedding
        /\ components = NoEmbedding
        /\ model = NoModel
        /\ err = "none"
        /\ call = NoCall
        /\ aliased = FALSE
        /\ pc = "resolve"

\* the strings a caller may pass for method, numeric_fill, categorical_fill
MethodArgs == Methods \cup {"other"}

NumericFillArgs == NumericFills \cup {"other"}

CategoricalFillArgs == CategoricalFills \cup {"other"}

\* completed, fields_kept, samples_kept =
\*     complete_missing_data(data, field_info, method, numeric_fill, categorical_fill)
Complete(method, numeric_fill, categorical_fill) ==
    /\ pc = "resolve"
    /\ \E r \in {complete_missing_data(data, field_info, method, numeric_fill,
                                       categorical_fill)} :
        /\ call' = [op |-> "complete_missing_data", method |-> method,
                    numeric_fill |-> numeric_fill,
                    categorical_fill |-> categorical_fill]
        /\ err' = r.raised
        /\ completed' = r.completed
        /\ fields_kept' = r.fields_kept
        /\ samples_kept' = r.samples_kept
        /\ completed_info' = IF r.raised = "none"
                             THEN info_fields(field_info, r.fields_kept)
                             ELSE completed_info
        /\ aliased' = FALSE
        /\ pc' = IF r.raised = "none" THEN "encode" ELSE "done"
        /\ UNCHANGED <<data, field_info, encoded, original_fields, transformed,
                       components, model>>

\* the caller hands the base dataset itself to the encoder
PassData ==
    /\ pc = "resolve"
    /\ completed' = data
    /\ completed_info' = field_info
    /\ aliased' = TRUE
    /\ pc' = "encode"
    /\ UNCHANGED <<data, field_info, fields_kept, samples_kept, encoded,
                   original_fields, transformed, components, model, err, call>>

\* encoded, original_fields = preprocess(completed, completed_info, scale);
\* the call record keeps whether the dataset passed in held a missing value
Preprocess(scale) ==
    /\ pc \in {"encode", "project"}
    /\ \E r \in {preprocess(completed, completed_info, scale)} :
        /\ call' = [op |-> "preprocess", scale |-> scale,
                    missing |-> HasMissing(completed)]
        /\ err' = r.raised
        /\ completed' = r.data
        /\ data' = IF aliased THEN r.data ELSE data
        /\ encoded' = r.encoded
        /\ original_fields' = r.original_fields
        /\ pc' = IF r.raised = "none" THEN "project" ELSE "done"
        /\ UNCHANGED <<field_info, completed_info, fields_kept, samples_kept,
                       transformed, components, model, aliased>>

\* what a projection leaves of the invocation: the row index and the column
\* names of the matrix it was given, whether that held a missing value, and
\* what it returned
Projected(op, r, comps, mdl) ==
    /\ pc = "project"
    /\ call' = [op |-> op[1], arg |-> op[2], index |-> encoded.index,
                columns |-> encoded.columns,
                missing |-> \E j \in 1..Len(encoded.vals) :
                               \E i \in 1..Len(encoded.index) :
                                  isnull(encoded.vals[j][i])]
    /\ err' = r.raised
    /\ transformed' = r.transformed
    /\ components' = comps
    /\ model' = mdl
    /\ completed' = NoData
    /\ completed_info' = [index |-> <<>>, FieldType |-> <<>>]
    /\ fields_kept' = <<>>
    /\ samples_kept' = <<>>
    /\ aliased' = FALSE
    /\ encoded' = NoFrame
    /\ original_fields' = <<>>
    /\ pc' = "done"
    /\ UNCHANGED <<data, field_info>>

PcaTransform(max_pcs) ==
    pc = "project" /\ \E r \in {pca_transform(encoded, max_pcs)} :
        Projected(<<"pca_transform", max_pcs>>, r,
                  r.components, NoModel)

MdsTransform ==
    pc = "project" /\ \E r \in {mds_transform(encoded)} :
        Projected(<<"mds_transform", 0>>, r, NoEmbedding, NoModel)

PcaDimsArgs == {0, 1, DefaultPcaDims}

\* the final KL divergences of n fits: the loop only compares them, so they
\* are taken up to their order, as ranks 1..k with ties
Divergences(n) ==
    {kls \in [1..n -> KLValues] : \E k \in KLValues : Range(kls) = 1..k}

TsneTransform(pca_dims, n_runs, kls) ==
    pc = "project" /\ \E r \in {tsne_transform(encoded, pca_dims, kls)} :
        Projected(<<"tsne_transform", n_runs>>, r,
                  NoEmbedding, r.model)

UmapTransform(pca_dims) ==
    pc = "project" /\ \E r \in {umap_transform(encoded, pca_dims)} :
        Projected(<<"umap_transform", 0>>, r, NoEmbedding, r.model)

\* the next invocation starts from the base dataset as it now is
Restart ==
    /\ pc = "done"
    /\ completed' = NoData
    /\ completed_info' = [index |-> <<>>, FieldType |-> <<>>]
    /\ fields_kept' = <<>>
    /\ samples_kept' = <<>>
    /\ encoded' = NoFrame
    /\ original_fields' = <<>>
    /\ transformed' = NoEmbedding
    /\ components' = NoEmbedding
    /\ model' = NoModel
    /\ err' = "none"
    /\ call' = NoCall
    /\ aliased' = FALSE
    /\ pc' = "resolve"
    /\ UNCHANGED <<data, field_info>>

Next ==
    \/ \E method \in MethodArgs, numeric_fill \in NumericFillArgs,
          categorical_fill \in CategoricalFillArgs :
          Complete(method, numeric_fill, categorical_fill)
    \/ PassData
    \/ \E scale \in BOOLEAN : Preprocess(scale)
    \/ \E max_pcs \in 1..MaxPcs : PcaTransform(max_pcs)
    \/ MdsTransform
    \/ \E pca_dims \in PcaDimsArgs, n_runs \in 1..MaxRuns :
          \E kls \in Divergences(fits(n_runs)) :
             TsneTransform(pca_dims, n_runs, kls)
    \/ \E pca_dims \in PcaDimsArgs : UmapTransform(pca_dims)
    \/ Restart

Spec == Init /\ [][Next]_vars

----------------------------------------------------------------------------
(* Properties of complete_missing_data.  Between the call and the next    *)
(* stage the base dataset is what the call was given.                     *)

\* complete_missing_data has just been called with the given method
Completing(method) ==
    call.op = "complete_missing_data" /\ call.method = method

\* the call that has just been made returned
CallReturned == err = "none"

ValidFills ==
    call.numeric_fill \in NumericFills /\ call.categorical_fill \in CategoricalFills

\* C1: with method=fill_values and any recognized numeric_fill and
\* categorical_fill, the returned data holds no missing value in any field
C1_FillValuesLeavesNoMissing ==
    (Completing("fill_values") /\ ValidFills /\ CallReturned)
        => ~HasMissing(completed)

\* "Unknown" followed by m underscores / "Unknown{r}" followed by m underscores
RECURSIVE Underscores(_)
Underscores(m) == IF m = 0 THEN "" ELSE Underscores(m - 1) \o "_"

\* the rows of a column that hold a missing value, in row order
MissingRows(col) == SelectSeq([i \in 1..Len(col) |-> i], LAMBDA i : isnull(col[i]))

\* the categorical fields of the base dataset that hold a missing value
MissingCategorical ==
    {j \in 1..Len(data.columns) :
        /\ IsCategorical(field_info.FieldType[j])
        /\ \E i \in 1..Len(data.index) : isnull(data.vals[j][i])}

RejectedArguments ==
    \/ call.method \notin Methods
    \/ call.method = "fill_values" /\ ~ValidFills

NoResult ==
    completed = NoData /\ fields_kept = <<>> /\ samples_kept = <<>> /\ pc = "done"

\* C3, as claimed: the call fails whenever method, numeric_fill or
\* categorical_fill is not a recognized value, whatever the other two are
C3_RejectsAnyUnrecognizedArgument ==
    (call.op = "complete_missing_data"
        /\ (call.method \notin Methods \/ ~ValidFills))
        => err = "ValueError" /\ NoResult

\* C3, amended: the call fails with ValueError and returns nothing when
\* method is unrecognized, or when method is fill_values and numeric_fill or
\* categorical_fill is unrecognized; drop_fields and drop_samples ignore
\* the two fill arguments and return
C3_RejectsUnrecognizedMethodOrFill ==
    call.op = "complete_missing_data" =>
        /\ RejectedArguments => err = "ValueError" /\ NoResult
        /\ call.method \in {"drop_fields", "drop_samples"} =>
              CallReturned /\ pc = "encode"

C3_Witness ==
    /\ Completing("fill_values")
    /\ call.numeric_fill = "mean" /\ call.categorical_fill = "other"
    /\ err = "ValueError" /\ NoResult

\* the number of TRUE entries of a mask up to position j
Rank(mask, j) == Cardinality({h \in 1..j : mask[h]})

NoMissingInField(j) == \A i \in 1..Len(data.index) : ~isnull(data.vals[j][i])

NoMissingInSample(i) == \A j \in 1..Len(data.columns) : ~isnull(data.vals[j][i])

IsAllTrue(mask, n) == Len(mask) = n /\ \A h \in 1..n : mask[h]

\* C4: drop_fields (drop_samples) returns the input restricted to exactly
\* the fields (samples) without a missing value, every sample (field) kept;
\* the masks are indexed by the original fields and samples, true exactly
\* for what was kept, and all-true on the untouched axis
C4_DropKeepsExactlyTheComplete ==
    /\ (Completing("drop_fields") /\ CallReturned) =>
          /\ Len(fields_kept) = Len(data.columns)
          /\ \A j \in 1..Len(data.columns) : fields_kept[j] <=> NoMissingInField(j)
          /\ IsAllTrue(samples_kept, Len(data.index))
          /\ completed.index = data.index
          /\ Len(completed.columns) = Rank(fields_kept, Len(data.columns))
          /\ Len(completed.vals) = Len(completed.columns)
          /\ \A j \in 1..Len(data.columns) :
                fields_kept[j] =>
                    /\ completed.columns[Rank(fields_kept, j)] = data.columns[j]
                    /\ completed.vals[Rank(fields_kept, j)] = data.vals[j]
    /\ (Completing("drop_samples") /\ CallReturned) =>
          /\ Len(samples_kept) = Len(data.index)
          /\ \A i \in 1..Len(data.index) : samples_kept[i] <=> NoMissingInSample(i)
          /\ IsAllTrue(fields_kept, Len(data.columns))
          /\ completed.columns = data.columns
          /\ Len(completed.index) = Rank(samples_kept, Len(data.index))
          /\ \A j \in 1..Len(data.columns) :
                Len(completed.vals[j]) = Len(completed.index)
          /\ \A i \in 1..Len(data.index) :
                samples_kept[i] =>
                    /\ completed.index[Rank(samples_kept, i)] = data.index[i]
                    /\ \A j \in 1..Len(data.columns) :
                          completed.vals[j][Rank(samples_kept, i)] = data.vals[j][i]

\* drop_fields dropped the first field and kept the second
C4_Witness ==
    /\ Completing("drop_fields") /\ CallReturned
    /\ fields_kept = <<FALSE, TRUE>>
    /\ completed.columns = <<"a">>

\* C5: on a dataset without a missing value every valid method returns
\* all-true masks and the input unchanged in content and shape
C5_NothingToResolveIsNoOp ==
    (/\ call.op = "complete_missing_data"
     /\ ~RejectedArguments
     /\ ~HasMissing(data))
        => /\ CallReturned
           /\ completed = data
           /\ IsAllTrue(fields_kept, Len(data.columns))
           /\ IsAllTrue(samples_kept, Len(data.index))

C5_Witness ==
    /\ Completing("drop_samples") /\ CallReturned
    /\ ~HasMissing(data)
    /\ Len(data.columns) = 2
    /\ completed = data

----------------------------------------------------------------------------
(* Properties of preprocess.  After the call, completed is the dataset    *)
(* that was passed in (its numeric fields scaled when scale was true) and *)
(* completed_info its field_info.                                         *)

\* preprocess has just been called and returned
Encoded == call.op = "preprocess" /\ CallReturned /\ pc = "project"

NumericFields == {j \in 1..Len(completed.columns) : IsNumeric(completed_info.FieldType[j])}

CategoricalFields ==
    {j \in 1..Len(completed.columns) : IsCategorical(completed_info.FieldType[j])}

\* the labels that occur in field j / the categories field j declares
DistinctValues(j) == Labels(completed.vals[j])

DeclaredCategories(j) == Range(completed.cats[j])

\* where the indicator columns of categorical field j start in the encoded
\* matrix: after the numeric columns and the blocks of the categorical
\* fields before it, a block having one column per category of C(field)
BlockStart(j, C(_)) ==
    Cardinality(NumericFields)
    + SumSeq([h \in 1..(j - 1) |-> IF h \in CategoricalFields THEN Cardinality(C(h)) ELSE 0])

\* the indicator columns of field j are exactly one column {field}_{category}
\* per category of C(j), each with one row per sample, 1 in the rows of the
\* samples of that category and 0 in the others
OneHotBlock(j, C(_)) ==
    \E start \in {BlockStart(j, C)} :
        /\ start + Cardinality(C(j)) <= Len(encoded.columns)
        /\ {encoded.columns[p] : p \in (start + 1)..(start + Cardinality(C(j)))}
              = {completed.columns[j] \o "_" \o c : c \in C(j)}
        /\ \A p \in (start + 1)..(start + Cardinality(C(j))) :
              /\ Len(encoded.vals[p]) = Len(completed.index)
              /\ \A c \in C(j) :
                    encoded.columns[p] = completed.columns[j] \o "_" \o c =>
                        \A i \in 1..Len(completed.index) :
                            encoded.vals[p][i] =
                                IF completed.vals[j][i] = <<c>> THEN Num(1) ELSE Num(0)
        /\ \A i \in 1..Len(completed.index) :
              Cardinality({p \in (start + 1)..(start + Cardinality(C(j))) :
                              encoded.vals[p][i] = Num(1)}) = 1

OneHotBlocks(C(_)) ==
    /\ Len(encoded.columns) =
          BlockStart(Len(completed.columns) + 1, C)
    /\ Len(encoded.vals) = Len(encoded.columns)
    /\ \A j \in CategoricalFields : OneHotBlock(j, C)

\* C6, as claimed: on data without missing values a categorical field with
\* k distinct values gets exactly k indicator columns {field}_{category},
\* one row per sample, exactly one 1 per row, in the column of the sample's
\* category, also when the field declares categories no sample has
C6_OneColumnPerDistinctValue ==
    (Encoded /\ ~call.missing /\ Len(completed.index) > 0)
        => OneHotBlocks(DistinctValues)

\* C6, amended: the field gets one indicator column per category its
\* category dtype declares, whether or not a sample has it; k is the number
\* of declared categories
C6_OneColumnPerDeclaredCategory ==
    (Encoded /\ ~call.missing) => OneHotBlocks(DeclaredCategories)

\* after drop_samples a field declares a category that no sample has
C6_Witness ==
    /\ Encoded /\ ~call.missing
    /\ \E j \in CategoricalFields :
          /\ DistinctValues(j) # DeclaredCategories(j)
          /\ DistinctValues(j) # {}

\* the field the encoded column at position p was derived from
SourceField(p) ==
    IF p <= Cardinality(NumericFields)
    THEN CHOOSE j \in NumericFields : Rank([h \in 1..Len(completed.columns) |->
                                              h \in NumericFields], j) = p
    ELSE CHOOSE j \in CategoricalFields :
             /\ BlockStart(j, DeclaredCategories) < p
             /\ p <= BlockStart(j, DeclaredCategories) + Len(completed.cats[j])

\* C7: the keys of the provenance map are exactly the encoded columns, every
\* encoded column maps to the field it was derived from, and every numeric
\* field name maps to itself, also when an indicator name coincides with
\* another column's name
C7_ProvenanceMatchesColumns ==
    Encoded =>
        /\ DOMAIN original_fields = Range(encoded.columns)
        /\ \A p \in 1..Len(encoded.columns) :
              original_fields[encoded.columns[p]] = completed.columns[SourceField(p)]
        /\ \A j \in NumericFields :
              original_fields[completed.columns[j]] = completed.columns[j]

----------------------------------------------------------------------------
(* Properties of the projections. *)

Projections == {"pca_transform", "mds_transform", "tsne_transform", "umap_transform"}

\* a projection has just been called and returned
Embedded == call.op \in Projections /\ CallReturned

\* C8: preprocess and each projection fail, before producing any output,
\* whenever the data passed to them holds a missing value
C8_MissingValuesAreRejected ==
    /\ (call.op = "preprocess" /\ call.missing) =>
          err # "none" /\ encoded = NoFrame /\ original_fields = <<>>
    /\ (call.op \in Projections /\ call.missing) =>
          err # "none" /\ transformed = NoEmbedding

\* C9: the encoded matrix has the row index of the data passed to
\* preprocess, and every embedding has one row per row of the matrix passed
\* to the projection, with the same row index, with or without PCA first
C9_RowIndexPreserved ==
    /\ Encoded =>
          /\ encoded.index = completed.index
          /\ \A p \in 1..Len(encoded.vals) : Len(encoded.vals[p]) = Len(completed.index)
    /\ Embedded => transformed.index = call.index

\* t-SNE ran after a PCA reduction and returned an embedding of both samples
C9_Witness ==
    /\ Embedded /\ call.op = "tsne_transform" /\ model.pca
    /\ transformed.index = <<RowKey(1), RowKey(2)>>

PcaNames == <<"PCA1", "PCA2", "PCA3", "PCA4", "PCA5", "PCA6", "PCA7", "PCA8", "PCA9">>

\* C10: pca_transform with max_pcs=m on n_samples rows and n_features
\* columns returns k = min(m, n_features, n_samples) columns PCA1..PCAk, and
\* loadings with the same k columns, indexed by the input's column names
C10_PcaShape ==
    (Embedded /\ call.op = "pca_transform") =>
        \E k \in 0..call.arg :
            /\ k <= call.arg /\ k <= Len(call.columns) /\ k <= Len(call.index)
            /\ k = call.arg \/ k = Len(call.columns) \/ k = Len(call.index)
            /\ transformed.columns = SubSeq(PcaNames, 1, k)
            /\ components.columns = SubSeq(PcaNames, 1, k)
            /\ components.index = call.columns

\* the number of samples is what limits the number of components
C10_Witness ==
    /\ Embedded /\ call.op = "pca_transform"
    /\ Len(call.index) < call.arg /\ Len(call.index) < Len(call.columns)
    /\ Len(transformed.columns) = Len(call.index)

\* C11: for n_runs >= 1 tsne_transform fits n_runs times, and the model and
\* the embedding it returns are those of one and the same run, whose final
\* KL divergence is the minimum over all n_runs runs, in whatever order the
\* divergences occur
C11_LowestDivergenceRunKept ==
    (call.op = "tsne_transform" /\ CallReturned) =>
        /\ Len(model.kls) = call.arg
        /\ model.kept \in 1..call.arg
        /\ model.embedding = model.kept
        /\ \A n \in 1..call.arg : model.kls[model.kept] <= model.kls[n]

\* three runs whose lowest divergence is neither the first nor the last
C11_Witness ==
    /\ call.op = "tsne_transform" /\ CallReturned
    /\ call.arg = 3
    /\ model.kls = <<3, 1, 2>>
    /\ model.kept = 2

----------------------------------------------------------------------------
(* Independence of the invocations.                                       *)

\* C12: complete_missing_data and preprocess, with scale true or false,
\* leave the dataset passed to them as it was, and no step of an invocation
\* changes the base dataset, so every invocation starts from the pristine
\* dataset whatever ran before it
C12_PassedDatasetLeftUnchanged ==
    [][/\ data' = data
       /\ (\E scale \in BOOLEAN : Preprocess(scale)) => completed' = completed]_vars

====
